---- MODULE Spec2Model ----
(***************************************************************************)
(* A model of the binned waveform renderer of src/src/binned.rs:           *)
(* BinnedWaveformRenderer::new (the binning pass), render_vec and          *)
(* render_write (the window renderer).                                     *)
(*                                                                         *)
(* Conventions.                                                            *)
(*  - Rust slices are 0-based, TLA+ sequences 1-based: element i of a Rust *)
(*    slice is s[i + 1] here.                                              *)
(*  - Samples (the generic T: Sample) and the amplitude range are small    *)
(*    integers; the f64 quotients of the code are kept as exact rationals  *)
(*    (numerator and denominator), so floor, ceil and < are exact.         *)
(*  - A panic (index out of bounds, division by zero) ends a call in the   *)
(*    state "panic"; what was written before it stays written.             *)
(***************************************************************************)
EXTENDS Integers, Sequences, FiniteSets, TLC

VARIABLES
    samples,    \* the SampleSequence handed to new: [data, sample_rate]
    bin_size,   \* the bin_size handed to new
    config,     \* the WaveformConfig handed to new
    wfr,        \* what new returned: [tag |-> "None" | "Ok" | "Err" | "Abort", ...]
    calls,      \* per caller, the state of its render call in progress
    held        \* per caller, the Option<Vec<u8>> its last render_vec returned

vars == <<samples, bin_size, config, wfr, calls, held>>

(***************************************************************************)
(* Bounds of the model.                                                    *)
(***************************************************************************)
MaxSamples == 4     \* longest sample sequence given to new in SpecNew
MaxAmp == 2         \* samples are drawn from -MaxAmp .. MaxAmp in SpecNew

Min(a, b) == IF a < b THEN a ELSE b
Max(a, b) == IF a > b THEN a ELSE b

\* All sequences over S of length at most n.
SeqsUpTo(S, n) == UNION {[1..k -> S] : k \in 0..n}

(***************************************************************************)
(* WaveformConfig and Color (misc.rs, outside this file): an amplitude     *)
(* range with amp_min < amp_max and two colors of the same variant.        *)
(***************************************************************************)
Formats == {"Scalar", "Vector3", "Vector4"}

\* Bytes per pixel of the config's color variant (the match of lines 92-96
\* and 139-155).
Bpp(cfg) ==
    CASE cfg.format = "Scalar" -> 1
      [] cfg.format = "Vector3" -> 3
      [] cfg.format = "Vector4" -> 4

\* A config of the given variant: background bytes 10, 11, .., foreground
\* bytes 20, 21, .. (one per channel).
MkConfig(fmt, lo, hi) ==
    LET n == CASE fmt = "Scalar" -> 1 [] fmt = "Vector3" -> 3 [] fmt = "Vector4" -> 4
    IN [format |-> fmt, amp_min |-> lo, amp_max |-> hi,
        background |-> [i \in 1..n |-> 9 + i],
        foreground |-> [i \in 1..n |-> 19 + i]]

(***************************************************************************)
(* BinnedWaveformRenderer::new, lines 36-74.                               *)
(***************************************************************************)

\* A faulty variant of NbBins: the quotient truncated instead of rounded up.
NbBinsFloorMutant(n, b) == IF b = 0 THEN 0 ELSE n \div b

\* Line 46: (nb_samples as f64 / bin_size as f64).ceil() as usize, for
\* bin_size > 0. (0/0 is NaN, which casts to 0; n/0 is +inf, see
\* NbBinsSaturates.)
NbBins(n, b) == IF b = 0 THEN 0 ELSE (n + b - 1) \div b

\* Line 46 with bin_size = 0 and nb_samples > 0: +inf casts to usize::MAX,
\* and the loop of lines 48-66 pushes pairs until the allocation fails.
NbBinsSaturates(n, b) == b = 0 /\ n > 0

\* Lines 52-63: the scan of one bin from its second sample on; acc is the
\* (min, max) so far.
RECURSIVE BinScan(_, _, _, _, _)
BinScan(data, x, b, i, acc) ==
    IF i >= b THEN acc
    ELSE LET idx == x * b + i IN
         IF idx >= Len(data) THEN acc                       \* break
         ELSE LET s == data[idx + 1] IN
              BinScan(data, x, b, i + 1,
                      IF s > acc.max THEN [acc EXCEPT !.max = s]
                      ELSE IF s < acc.min THEN [acc EXCEPT !.min = s]
                      ELSE acc)

\* Lines 48-66: one MinMaxPair per bin; reading samples.data[x * bin_size]
\* past the end panics.
RECURSIVE BuildBins(_, _, _, _, _)
BuildBins(data, b, nb, x, out) ==
    IF x >= nb THEN [ok |-> TRUE, data |-> out]
    ELSE IF x * b >= Len(data) THEN [ok |-> FALSE, data |-> out]
    ELSE LET first == data[x * b + 1]
             mm == IF b > 1
                   THEN BinScan(data, x, b, 1, [min |-> first, max |-> first])
                   ELSE [min |-> first, max |-> first]
         IN BuildBins(data, b, nb, x + 1, Append(out, mm))

\* The whole constructor: Err(InvalidSizeError) of lines 40-44, the abort of
\* an unbounded push loop, or the renderer of lines 67-73.
NewRenderer(s, b, cfg) ==
    LET n == Len(s.data) IN
    IF b > n THEN [tag |-> "Err", var_name |-> "bin_size"]
    ELSE IF NbBinsSaturates(n, b) THEN [tag |-> "Abort"]
    ELSE LET built == BuildBins(s.data, b, NbBins(n, b), 0, <<>>) IN
         IF ~built.ok THEN [tag |-> "Abort"]
         ELSE [tag |-> "Ok", config |-> cfg, bin_size |-> b,
               minmax |-> built.data, sample_rate |-> s.sample_rate]

NoRenderer == [tag |-> "None"]

Callers == {1, 2}
Idle == [pc |-> "idle"]

\* The state before new is called, the arguments drawn from the given sets.
InitOver(SampleSeqs, BinSizes, Cfgs) ==
    /\ samples \in SampleSeqs
    /\ bin_size \in BinSizes
    /\ config \in Cfgs
    /\ wfr = NoRenderer
    /\ calls = [p \in Callers |-> Idle]
    /\ held = [p \in Callers |-> [tag |-> "Nothing"]]

New ==
    /\ wfr.tag = "None"
    /\ wfr' = NewRenderer(samples, bin_size, config)
    /\ UNCHANGED <<samples, bin_size, config, calls, held>>

(***************************************************************************)
(* SpecNew: the constructor on every sample sequence of up to MaxSamples   *)
(* samples and every bin_size up to one past that.                         *)
(***************************************************************************)
NewSampleSeqs ==
    {[data |-> d, sample_rate |-> 2] : d \in SeqsUpTo(-MaxAmp..MaxAmp, MaxSamples)}

InitNew == InitOver(NewSampleSeqs, 0..(MaxSamples + 1), {MkConfig("Scalar", -1, 1)})

SpecNew == InitNew /\ [][New]_vars

\* The samples a bin covers: indices [i*B, min((i+1)*B, N)), 0-based.
BinRange(i, b, n) == {j \in 0..(n - 1) : i * b <= j /\ j < Min((i + 1) * b, n)}

\* C1: for 1 <= B <= N, new builds exactly ceil(N/B) bins, and bin i holds the
\* true minimum and maximum of the samples at [i*B, min((i+1)*B, N)): every
\* sample of the range lies between them and each bound is attained there.
C1_BinsAreTrueMinMax ==
    (wfr.tag # "None" /\ 1 <= bin_size /\ bin_size <= Len(samples.data)) =>
        /\ wfr.tag = "Ok"
        /\ LET n == Len(samples.data)
               k == Len(wfr.minmax)
           IN /\ k * bin_size >= n
              /\ (k - 1) * bin_size < n
              /\ \A i \in 0..(k - 1) :
                    LET R == BinRange(i, bin_size, n)
                        m == wfr.minmax[i + 1]
                    IN /\ \A j \in R : m.min <= samples.data[j + 1]
                                       /\ samples.data[j + 1] <= m.max
                       /\ \E j \in R : samples.data[j + 1] = m.min
                       /\ \E j \in R : samples.data[j + 1] = m.max

\* A construction with a short last bin whose first bin has its minimum after
\* its maximum (the else-if branch of the scan is taken).
C1_Witness ==
    /\ wfr.tag = "Ok"
    /\ bin_size = 3
    /\ Len(samples.data) = 4
    /\ samples.data[1] = 0 /\ samples.data[2] = 1 /\ samples.data[3] = -1
    /\ Len(wfr.minmax) = 2

\* C6 (as claimed): every renderer new returns has 1 <= bin_size <= number of
\* samples and a non-empty bin sequence, and every bin_size above the sample
\* count is refused with InvalidSizeError.
C6_ValidBinSizeOrError ==
    /\ wfr.tag = "Ok" =>
          /\ 1 <= wfr.bin_size
          /\ wfr.bin_size <= Len(samples.data)
          /\ Len(wfr.minmax) > 0
    /\ (wfr.tag # "None" /\ bin_size > Len(samples.data)) => wfr.tag = "Err"


(***************************************************************************)
(* render_write, lines 125-354, as the steps of one call.  A call's state  *)
(* is a record: pc ("resolve", "col", "pix", then "ok", "err", "panic" or  *)
(* "none"), the arguments, the position in the loops and a log of what the *)
(* call has computed and written.                                          *)
(***************************************************************************)

\* TimeRange::Samples(b, e) and TimeRange::Seconds(b, e) (whole seconds).
SamplesRange(b, e) == [unit |-> "Samples", b |-> b, e |-> e]
SecondsRange(b, e) == [unit |-> "Seconds", b |-> b, e |-> e]

\* The arguments of a render_write call.
WriteArgs(range, offx, offy, w, h, img, fullw, fullh) ==
    [range |-> range, offx |-> offx, offy |-> offy, w |-> w, h |-> h,
     img |-> img, fullw |-> fullw, fullh |-> fullh]

\* A faulty variant of Validate: the comparison with full_shape left out.
ValidateNoFullShapeMutant(r, a) ==
    IF a.w = 0 \/ a.h = 0 THEN "shape"
    ELSE IF (a.offx + a.w) * (a.offy + a.h) * Bpp(r.config) > Len(a.img)
         THEN "offsets and/or shape"
    ELSE ""

\* Lines 126-155: the var_name of the InvalidSizeError returned, or "" when
\* the arguments pass.
Validate(r, a) ==
    IF a.w = 0 \/ a.h = 0 THEN "shape"
    ELSE IF a.fullw < a.w \/ a.fullh < a.h THEN "shape and/or full_shape"
    ELSE IF (a.offx + a.w) * (a.offy + a.h) * Bpp(r.config) > Len(a.img)
         THEN "offsets and/or shape"
    ELSE ""

\* The state of a call right after the checks of lines 126-155.
Enter(r, kind, a) ==
    LET e == Validate(r, a) IN
    [pc |-> IF e = "" THEN "resolve" ELSE "err", err |-> e, kind |-> kind,
     range |-> a.range, offx |-> a.offx, offy |-> a.offy, w |-> a.w, h |-> a.h,
     fullw |-> a.fullw, fullh |-> a.fullh, img |-> a.img, prior |-> a.img,
     nb_samples |-> 0, offset_bin_idx |-> 0, start_bin_idx |-> 0, x |-> 0,
     cols |-> <<>>, plan |-> <<>>, k |-> 0, wlog |-> <<>>]

\* Lines 157-171: the window in samples and its first bin. The integer
\* division of line 170 panics when bin_size is 0.
Resolve(r, st) ==
    LET begin == IF st.range.unit = "Seconds" THEN st.range.b * r.sample_rate
                 ELSE st.range.b
        end == IF st.range.unit = "Seconds" THEN st.range.e * r.sample_rate
               ELSE st.range.e
    IN IF r.bin_size = 0
       THEN [st EXCEPT !.pc = "panic", !.err = "attempt to divide by zero"]
       ELSE [st EXCEPT !.pc = "col",
                       !.nb_samples = end - begin,
                       !.offset_bin_idx = begin \div r.bin_size,
                       !.start_bin_idx = begin \div r.bin_size]

\* A faulty variant of Inc: always the floor step.
IncFloorOnlyMutant(r, st) == st.nb_samples \div (st.w * r.bin_size)

\* Lines 165-168 and 173-177: bins_per_pixel is nb_samples / (w * bin_size);
\* the step is its ceiling when (consumed + 1) / x < bins_per_pixel and its
\* floor otherwise. At x = 0 the quotient is +inf and the test is false.
\* (Within the bounds of the model the f64 test and the exact one agree.)
Inc(r, st) ==
    LET den == st.w * r.bin_size
        consumed == st.start_bin_idx - st.offset_bin_idx
    IN IF st.x > 0 /\ (consumed + 1) * den < st.nb_samples * st.x
       THEN (st.nb_samples + den - 1) \div den
       ELSE st.nb_samples \div den

\* Lines 191-198: the fold over minmax.data[range_start..range_end].
RECURSIVE FoldBins(_, _, _, _)
FoldBins(bins, i, range_end, acc) ==
    IF i >= range_end THEN acc
    ELSE LET b == bins[i + 1] IN
         FoldBins(bins, i + 1, range_end,
                  [min |-> IF b.min < acc.min THEN b.min ELSE acc.min,
                   max |-> IF b.max > acc.max THEN b.max ELSE acc.max])

\* A faulty variant of RangeEnd: no clamp at the bin count.
RangeEndUnclampedMutant(n, start, inc) == start + inc

\* Lines 186-190: the end of the consumed range.
RangeEnd(n, start, inc) == IF start + inc <= n THEN start + inc ELSE n

\* Lines 179-203: the envelope of one column, the bin the next column starts
\* at, and the bin indices read. An index at or past the bin count panics (as
\* does len() - 1 on an empty bin sequence).
Envelope(r, start, inc) ==
    LET n == Len(r.minmax) IN
    IF n = 0 THEN [ok |-> FALSE, min |-> 0, max |-> 0, next |-> start,
                   reads |-> {}, fallback |-> FALSE]
    ELSE IF start < n - 1
    THEN LET range_end == RangeEnd(n, start, inc)
             reads == {start} \cup {i \in 0..(range_end - 1) : i >= start}
         IN IF \E i \in reads : i >= n
            THEN [ok |-> FALSE, min |-> 0, max |-> 0, next |-> start,
                  reads |-> reads, fallback |-> FALSE]
            ELSE LET d == r.minmax[start + 1]
                     e == FoldBins(r.minmax, start, range_end,
                                   [min |-> d.min, max |-> d.max])
                 IN [ok |-> TRUE, min |-> e.min, max |-> e.max,
                     next |-> range_end, reads |-> reads, fallback |-> FALSE]
    ELSE [ok |-> TRUE, min |-> 0, max |-> 0, next |-> start,
          reads |-> {}, fallback |-> TRUE]

\* A faulty variant of Translate: the row not flipped (no h - ...).
TranslateUnflippedMutant(cfg, h, v) ==
    Max(0, Min(h, ((v - cfg.amp_min) * h) \div (cfg.amp_max - cfg.amp_min)))

\* Lines 205-221: the row of an amplitude, h - max(0, min(h, floor((v -
\* amp_min) * scale))) with scale = h / (amp_max - amp_min).
Translate(cfg, h, v) ==
    h - Max(0, Min(h, ((v - cfg.amp_min) * h) \div (cfg.amp_max - cfg.amp_min)))

\* The rows a..b-1 in order, each with the color to paint (fg or not).
Segment(a, b, fg) == IF b <= a THEN <<>> ELSE [i \in 1..(b - a) |-> [y |-> a + i - 1, fg |-> fg]]

\* flipping_three_segment_for! (the macros are outside this file): three
\* loops, for y in 0..max_row and min_row..h the first statement
\* (background), for y in max_row..min_row the second (foreground).
RowPlan(max_row, min_row, h) ==
    Segment(0, max_row, FALSE) \o Segment(max_row, min_row, TRUE)
        \o Segment(min_row, h, FALSE)

\* Lines 172-221: one column up to its pixel loop.
Column(r, st) ==
    LET inc == Inc(r, st)
        env == Envelope(r, st.start_bin_idx, inc)
    IN IF ~env.ok
       THEN [st EXCEPT !.pc = "panic", !.err = "index out of bounds (bins)"]
       ELSE LET min_translated == Translate(r.config, st.h, env.min)
                max_translated == Translate(r.config, st.h, env.max)
                plan == RowPlan(max_translated, min_translated, st.h)
                col == [x |-> st.x, c |-> st.start_bin_idx, inc |-> inc,
                        min |-> env.min, max |-> env.max, next |-> env.next,
                        reads |-> env.reads, fallback |-> env.fallback,
                        max_row |-> max_translated, min_row |-> min_translated]
            IN [st EXCEPT !.cols = Append(@, col),
                          !.start_bin_idx = env.next,
                          !.plan = plan,
                          !.k = 1,
                          !.pc = IF plan = <<>> THEN "col" ELSE "pix",
                          !.x = IF plan = <<>> THEN @ + 1 ELSE @]

\* pixel! (the macros are outside this file): pixel (px, py) of a row-major
\* image of row width fullw with l bytes per pixel starts at byte
\* (px + py * fullw) * l.
PixelPos(fullw, px, py) == px + py * fullw

\* The bytes a pixel write may touch and the bytes it sets. Scalar (lines
\* 228-229) indexes one byte; Vector3 and Vector4 (lines 280-283, 337-340)
\* take the slice of channels 0 => 4 and write the color into it.
PixelSlice(cfg, pos) ==
    IF cfg.format = "Scalar" THEN [lo |-> pos, hi |-> pos + 1, n |-> 1]
    ELSE [lo |-> pos * Bpp(cfg) + 0, hi |-> pos * Bpp(cfg) + 4, n |-> Bpp(cfg)]

\* Lines 224-350: one statement of the pixel loop of column x, row y. The
\* index or slice past the end of img panics with nothing written.
Pixel(r, st) ==
    LET step == st.plan[st.k]
        pos == PixelPos(st.fullw, st.offx + st.x, st.offy + step.y)
        sl == PixelSlice(r.config, pos)
        color == IF step.fg THEN r.config.foreground ELSE r.config.background
        last == st.k = Len(st.plan)
    IN IF sl.hi > Len(st.img)
       THEN [st EXCEPT !.pc = "panic", !.err = "index out of bounds (img)"]
       ELSE [st EXCEPT
               !.img = [i \in 1..Len(st.img) |->
                          IF sl.lo < i /\ i <= sl.lo + sl.n
                          THEN color[i - sl.lo] ELSE st.img[i]],
               !.wlog = Append(@, [x |-> st.x, y |-> step.y, pos |-> pos,
                                   fg |-> step.fg]),
               !.k = IF last THEN 0 ELSE @ + 1,
               !.x = IF last THEN @ + 1 ELSE @,
               !.pc = IF last THEN "col" ELSE "pix"]

\* Line 353: Ok(()).
Finish(r, st) == [st EXCEPT !.pc = "ok"]

Final == {"ok", "err", "panic", "none"}

\* The next step of a call in progress.
CallStep(r, st) ==
    CASE st.pc = "resolve" -> Resolve(r, st)
      [] st.pc = "col" /\ st.x < st.w -> Column(r, st)
      [] st.pc = "col" /\ st.x >= st.w -> Finish(r, st)
      [] st.pc = "pix" -> Pixel(r, st)
      [] OTHER -> st

\* A call run alone from state st to its end.
RECURSIVE RunAlone(_, _)
RunAlone(r, st) == IF st.pc \in Final \/ st.pc = "idle" THEN st ELSE RunAlone(r, CallStep(r, st))

\* A faulty variant of RendererAfterStep: a column step drops the renderer's
\* first bin (a cursor kept in the renderer).
RendererAfterStepCursorMutant(r, st) ==
    IF st.pc = "col" /\ r.tag = "Ok" /\ Len(r.minmax) > 1
    THEN [r EXCEPT !.minmax = Tail(@)] ELSE r

\* Line 125, &self: a render call borrows the renderer immutably, so the
\* renderer after a step is the renderer before it.
RendererAfterStep(r, st) == r


(***************************************************************************)
(* The calls as actions of caller p.                                       *)
(***************************************************************************)

\* A caller starts a render_write when it has no call in progress; it may
\* follow a render_vec of its own (as tests::render_vec_and_write_eq does).
MayCallWrite(p) ==
    \/ calls[p].pc = "idle"
    \/ calls[p].pc \in Final /\ calls[p].kind = "vec"

\* Lines 125-155: the call of render_write and its checks.
RenderWrite(p, Args) ==
    /\ wfr.tag = "Ok"
    /\ MayCallWrite(p)
    /\ \E a \in Args : calls' = [calls EXCEPT ![p] = Enter(wfr, "write", a)]
    /\ UNCHANGED <<samples, bin_size, config, wfr, held>>

Zeros(n) == [i \in 1..n |-> 0]

\* Lines 85-98: render_vec up to its call of render_write: None for an empty
\* shape, else a zeroed image of w * h pixels and render_write(range, (0, 0),
\* shape, img, shape).unwrap().
VecEnter(r, range, w, h) ==
    LET st == Enter(r, "vec",
                    WriteArgs(range, 0, 0, w, h, Zeros(w * h * Bpp(r.config)), w, h))
    IN IF w = 0 \/ h = 0 THEN [st EXCEPT !.pc = "none", !.err = ""]
       ELSE IF st.pc = "err" THEN [st EXCEPT !.pc = "panic"]
       ELSE st

\* What the caller holds of a render_vec call in state st.
VecResult(st) ==
    [tag |-> CASE st.pc = "ok" -> "Some" [] st.pc = "none" -> "None"
               [] st.pc = "panic" -> "Panic" [] OTHER -> "Running",
     range |-> st.range, w |-> st.w, h |-> st.h, img |-> st.img]

RenderVec(p, Ranges, Dims) ==
    /\ wfr.tag = "Ok"
    /\ calls[p].pc = "idle"
    /\ \E range \in Ranges, w \in Dims, h \in Dims :
          LET st == VecEnter(wfr, range, w, h) IN
          /\ calls' = [calls EXCEPT ![p] = st]
          /\ held' = [held EXCEPT ![p] = VecResult(st)]
    /\ UNCHANGED <<samples, bin_size, config, wfr>>

\* One step of caller p's call; a render_vec in progress ends with the image
\* (line 100) or with the panic in the caller's hands.
Advance(p) ==
    LET st == CallStep(wfr, calls[p]) IN
    /\ calls' = [calls EXCEPT ![p] = st]
    /\ wfr' = RendererAfterStep(wfr, calls[p])
    /\ held' = IF st.kind = "vec" THEN [held EXCEPT ![p] = VecResult(st)] ELSE held
    /\ UNCHANGED <<samples, bin_size, config>>

StepResolve(p) == calls[p].pc = "resolve" /\ Advance(p)
StepColumn(p) == calls[p].pc = "col" /\ calls[p].x < calls[p].w /\ Advance(p)
StepPixel(p) == calls[p].pc = "pix" /\ Advance(p)
StepReturn(p) == calls[p].pc = "col" /\ calls[p].x >= calls[p].w /\ Advance(p)

Steps(p) == StepResolve(p) \/ StepColumn(p) \/ StepPixel(p) \/ StepReturn(p)

\* An image whose bytes are all different from each other and from every
\* color byte.
Stamped(n) == [i \in 1..n |-> 100 + i]

\* The calls that have entered render_write.
Entered(p) == calls[p].pc \notin {"idle", "none"}

(***************************************************************************)
(* Spec: one caller, render_write with every layout of offsets, shape,     *)
(* full_shape and image length within the bounds, on renderers of the      *)
(* three color variants (and the renderer new builds from no samples with  *)
(* bin_size 0).                                                            *)
(***************************************************************************)
MaxOff == 1         \* offsets are 0..MaxOff
MaxDim == 2         \* shape and full_shape sides are up to MaxDim
MaxPixels == 9      \* img holds up to MaxPixels pixels

LayoutSampleSeqs ==
    {[data |-> <<>>, sample_rate |-> 2], [data |-> <<-1, 1, 0, 2>>, sample_rate |-> 2]}

LayoutConfigs == {MkConfig(f, -1, 1) : f \in Formats}

LayoutArgs ==
    {WriteArgs(SamplesRange(0, 4), ox, oy, w, h, Stamped(k * Bpp(config)), fw, fh) :
        ox \in 0..MaxOff, oy \in 0..MaxOff, w \in 0..MaxDim, h \in 0..MaxDim,
        fw \in 1..MaxDim, fh \in 1..MaxDim, k \in 0..MaxPixels}

Init == InitOver(LayoutSampleSeqs, {0, 1}, LayoutConfigs)

Next == New \/ RenderWrite(1, LayoutArgs) \/ Steps(1)

Spec == Init /\ [][Next]_vars


\* The pixel (X, Y) that byte index i (0-based) of a row-major image of row
\* width fullw belongs to.
PixelOfByte(i, bpp, fullw) ==
    [X |-> (i \div bpp) % fullw, Y |-> (i \div bpp) \div fullw]

InRect(st, px) ==
    /\ st.offx <= px.X /\ px.X < st.offx + st.w
    /\ st.offy <= px.Y /\ px.Y < st.offy + st.h

\* C3 (as claimed): after a render_write that returned Ok, every byte of img
\* that differs from its value before the call belongs to a pixel (X, Y) with
\* offx <= X < offx + w and offy <= Y < offy + h.
C3_OnlyRectangleChanges ==
    \A p \in Callers :
        (Entered(p) /\ calls[p].pc = "ok") =>
            \A i \in 1..Len(calls[p].img) :
                calls[p].img[i] # calls[p].prior[i] =>
                    InRect(calls[p], PixelOfByte(i - 1, Bpp(wfr.config), calls[p].fullw))

\* The three conditions the claim names, on the arguments of the call.
InvalidSize(st, bpp) ==
    \/ st.w = 0 \/ st.h = 0
    \/ st.w > st.fullw \/ st.h > st.fullh
    \/ (st.offx + st.w) * (st.offy + st.h) * bpp > Len(st.prior)

\* C4: render_write returns InvalidSizeError for a shape with a zero side, a
\* shape wider or higher than full_shape, or (offx+w)*(offy+h)*bpp above
\* img.len(); and whenever it returns Err, img is byte for byte what it was
\* before the call and no pixel has been written.
C4_ErrorsBeforeAnyWrite ==
    \A p \in Callers :
        (Entered(p) /\ calls[p].kind = "write") =>
            /\ InvalidSize(calls[p], Bpp(wfr.config)) => calls[p].pc = "err"
            /\ calls[p].pc = "err" =>
                  /\ calls[p].img = calls[p].prior
                  /\ calls[p].wlog = <<>>
                  /\ calls[p].err # ""

\* A call refused by the length check alone, on a non-empty image.
C4_Witness ==
    /\ Entered(1)
    /\ calls[1].pc = "err"
    /\ calls[1].err = "offsets and/or shape"
    /\ calls[1].w = 2 /\ calls[1].h = 2 /\ calls[1].fullw = 2 /\ calls[1].fullh = 2
    /\ Len(calls[1].img) = 3 * Bpp(wfr.config)
    /\ calls[1].img = Stamped(3 * Bpp(wfr.config))

\* C5 (as claimed): for a call the checks let through, every byte index of the
\* destination rectangle, ((offy+y)*fullw + offx+x)*bpp + channel, is below
\* img.len(); the call ends with Ok, never with a panic after a partial write.
C5_ValidationImpliesFit ==
    \A p \in Callers :
        (Entered(p) /\ calls[p].pc # "err") =>
            LET st == calls[p]
                bpp == Bpp(wfr.config)
            IN /\ \A x \in 0..(st.w - 1), y \in 0..(st.h - 1), ch \in 0..(bpp - 1) :
                     ((st.offy + y) * st.fullw + (st.offx + x)) * bpp + ch < Len(st.img)
               /\ st.pc = "panic" => st.wlog = <<>>


(***************************************************************************)
(* SpecEq: the harness of tests::render_vec_and_write_eq, lines 370-399: a *)
(* render_vec, then a render_write of the same kind of window into a       *)
(* buffer of exactly w * h pixels, zeroed or stamped.                      *)
(***************************************************************************)
EqRanges == {SamplesRange(0, 4), SamplesRange(1, 3)}

\* A buffer of n bytes as the caller may hand it over: zeroed or stamped.
Buffer(fill, n) == IF fill = "zeros" THEN Zeros(n) ELSE Stamped(n)

EqArgs ==
    {WriteArgs(r, 0, 0, w, h, Buffer(fill, w * h * Bpp(config)), w, h) :
        r \in EqRanges, w \in 1..MaxDim, h \in 1..MaxDim,
        fill \in {"zeros", "stamped"}}

InitEq == InitOver(LayoutSampleSeqs, {0, 1}, LayoutConfigs)

NextEq ==
    \/ New
    \/ RenderVec(1, EqRanges, 0..MaxDim)
    \/ RenderWrite(1, EqArgs)
    \/ Steps(1)

SpecEq == InitEq /\ [][NextEq]_vars

\* C2 (as claimed): for w > 0 and h > 0, render_vec(range, (w, h)) returns the
\* bytes that render_write(range, (0, 0), (w, h), buf, (w, h)) leaves in a buf
\* of w * h * bpp bytes, whatever buf held before.
C2_VecEqualsWrite ==
    \A p \in Callers :
        LET st == calls[p]
            v == held[p]
        IN (/\ Entered(p) /\ st.kind = "write" /\ st.pc \in Final
            /\ v.tag \in {"Some", "None", "Panic"}
            /\ v.range = st.range /\ v.w = st.w /\ v.h = st.h
            /\ st.w > 0 /\ st.h > 0
            /\ st.offx = 0 /\ st.offy = 0 /\ st.fullw = st.w /\ st.fullh = st.h
            /\ Len(st.prior) = st.w * st.h * Bpp(wfr.config))
           => /\ v.tag = "Some"
              /\ st.pc = "ok"
              /\ st.img = v.img

(***************************************************************************)
(* SpecColumns: one caller, windows of every position and width over       *)
(* renderers of several bin sizes, as TimeRange::Samples and as            *)
(* TimeRange::Seconds, into an image of exactly the shape.                 *)
(***************************************************************************)
MaxEnd == 9         \* TimeRange::Samples windows lie in 0..MaxEnd
MaxSec == 2         \* TimeRange::Seconds windows lie in 0..MaxSec
MaxCols == 4        \* widths are 1..MaxCols
MaxRows == 3        \* heights are 1..MaxRows

ColSampleSeqs ==
    {[data |-> <<0, 1, 3, -2, -1, 0, 1, -1>>, sample_rate |-> 2],
     [data |-> <<1, -2, 0>>, sample_rate |-> 2]}

ColRanges ==
    {SamplesRange(b, e) : b \in 0..MaxEnd, e \in 0..MaxEnd}
        \cup {SecondsRange(b, e) : b \in 0..MaxSec, e \in 0..MaxSec}

\* The source leaves windows with end < begin to the overflow of line 164;
\* the calls of the model have begin <= end.
ColArgs ==
    {WriteArgs(r, 0, 0, w, h, Zeros(w * h), w, h) :
        r \in {q \in ColRanges : q.b <= q.e}, w \in 1..MaxCols, h \in 1..MaxRows}

ColConfigs == {MkConfig("Scalar", -1, 1), MkConfig("Scalar", -1, 2)}

InitColumns == InitOver(ColSampleSeqs, {1, 2, 3}, ColConfigs)

NextColumns == New \/ RenderWrite(1, ColArgs) \/ Steps(1)

SpecColumns == InitColumns /\ [][NextColumns]_vars

\* The first sample of the window of a call.
Begin(st) == IF st.range.unit = "Seconds" THEN st.range.b * wfr.sample_rate ELSE st.range.b

IsMinOf(v, S) == v \in S /\ \A u \in S : v <= u
IsMaxOf(v, S) == v \in S /\ \A u \in S : u <= v

\* The bins [c, min(c+s, n)) of a column at bin c with step s.
RangeOf(col, n) == {i \in 0..(n - 1) : col.c <= i /\ i < Min(col.c + col.inc, n)}

\* What C8 says of the columns of a call. The envelope of a column is that of
\* the bins RangeOf; with zeroStepShowsCurrent, a column of step 0 shows bin c.
ColumnsShow(st, zeroStepShowsCurrent) ==
    LET n == Len(wfr.minmax)
        bins == wfr.minmax
    IN /\ st.err # "index out of bounds (bins)"
       /\ \A j \in 1..Len(st.cols) :
            LET col == st.cols[j]
                R == IF zeroStepShowsCurrent /\ col.inc = 0 THEN {col.c}
                     ELSE RangeOf(col, n)
            IN /\ col.x = j - 1
               /\ col.c = IF j = 1 THEN Begin(st) \div wfr.bin_size
                          ELSE st.cols[j - 1].next
               /\ \A i \in col.reads : 0 <= i /\ i < n
               /\ IF col.c < n - 1
                  THEN /\ col.next = Min(col.c + col.inc, n)
                       /\ IsMinOf(col.min, {bins[i + 1].min : i \in R})
                       /\ IsMaxOf(col.max, {bins[i + 1].max : i \in R})
                  ELSE /\ col.min = 0 /\ col.max = 0
                       /\ col.next = col.c
                       /\ col.reads = {}

Abs(a) == IF a < 0 THEN -a ELSE a

\* The columns 1..j of a call lie inside the data: none is on the zero
\* fallback and none is clamped at the last bin.
InsideData(st, j) ==
    \A i \in 1..j : /\ ~st.cols[i].fallback
                    /\ st.cols[i].c + st.cols[i].inc <= Len(wfr.minmax)

\* The drift after column j, in units of 1 / (w * bin_size) bins: bins
\* consumed minus j * bins_per_pixel.
Drift(st, j) ==
    (st.cols[j].next - st.offset_bin_idx) * (st.w * wfr.bin_size) - j * st.nb_samples

\* C9 (as claimed): inside the data, the bins consumed after columns 0..x
\* differ from (x+1) * bins_per_pixel by less than one bin, for every column.
C9_DriftUnderOneBin ==
    \A p \in Callers :
        (Entered(p) /\ calls[p].pc # "err") =>
            \A j \in 1..Len(calls[p].cols) :
                InsideData(calls[p], j) =>
                    Abs(Drift(calls[p], j)) < calls[p].w * wfr.bin_size

\* C9 (amended): the difference is less than two bins.
C9_DriftUnderTwoBins ==
    \A p \in Callers :
        (Entered(p) /\ calls[p].pc # "err") =>
            \A j \in 1..Len(calls[p].cols) :
                InsideData(calls[p], j) =>
                    Abs(Drift(calls[p], j)) < 2 * calls[p].w * wfr.bin_size

\* A finished render inside the data, bins_per_pixel = 6/4, that has taken
\* both the floor and the ceiling step and is a bin or more behind.
C9_Witness ==
    /\ Entered(1) /\ calls[1].pc = "ok"
    /\ calls[1].w = 4 /\ calls[1].nb_samples = 6 /\ wfr.bin_size = 1
    /\ InsideData(calls[1], 4)
    /\ \E i, j \in 1..4 : calls[1].cols[i].inc = 1 /\ calls[1].cols[j].inc = 2
    /\ \E j \in 1..4 : Abs(Drift(calls[1], j)) >= calls[1].w * wfr.bin_size

\* The row of amplitude v as the claim writes it.
ClaimedRow(cfg, h, v) ==
    LET f == ((v - cfg.amp_min) * h) \div (cfg.amp_max - cfg.amp_min)
        clamped == IF f < 0 THEN 0 ELSE IF f > h THEN h ELSE f
    IN h - clamped

ConcShapes == {<<1, 1>>, <<2, 1>>, <<1, 2>>}

ConcArgs ==
    {WriteArgs(SamplesRange(0, 4), ox, 0, sh[1], sh[2], Stamped(4 * Bpp(config)), 2, 2) :
        ox \in {0, 1}, sh \in ConcShapes}

InitConc ==
    InitOver({[data |-> <<-1, 1, 0, 2>>, sample_rate |-> 2]}, {1}, LayoutConfigs)

NextConc ==
    \/ New
    \/ \E p \in Callers :
          \/ RenderWrite(p, ConcArgs)
          \/ RenderVec(p, {SamplesRange(0, 4)}, {1, 2})
          \/ Steps(p)

SpecConc == InitConc /\ [][NextConc]_vars

\* The state a call in state st started from, on renderer r.
CallStart(r, st) ==
    IF st.kind = "vec" THEN VecEnter(r, st.range, st.w, st.h)
    ELSE Enter(r, "write", WriteArgs(st.range, st.offx, st.offy, st.w, st.h,
                                     st.prior, st.fullw, st.fullh))

\* C7: a render call never modifies the renderer, and of two calls on the same
\* renderer into disjoint buffers, interleaved in any order, each leaves in
\* its buffer exactly the bytes (and returns the result) it would have had it
\* run alone.
C7_RendersIndependent ==
    wfr.tag # "None" =>
        /\ wfr = NewRenderer(samples, bin_size, config)
        /\ \A p \in Callers :
              (calls[p].pc \in Final) =>
                  LET r0 == NewRenderer(samples, bin_size, config)
                      alone == RunAlone(r0, CallStart(r0, calls[p]))
                  IN /\ calls[p].img = alone.img
                     /\ calls[p].pc = alone.pc

\* Caller 1 has finished a render that wrote pixels while caller 2 is in the
\* middle of a column of its own render, some pixels written.
C7_Witness ==
    /\ calls[1].pc = "ok" /\ calls[1].wlog # <<>>
    /\ calls[2].pc = "pix" /\ calls[2].wlog # <<>>
    /\ calls[2].k > 1

====
